---- MODULE Spec2Model ----
(***************************************************************************)
(* Model of the Jackson Holliday analysis script (src/unnamed/part_000):   *)
(* the static category tables, player_data_filtered, the aggregates the    *)
(* script body computes from its results (column means, whiff rates) and   *)
(* the chart data it hands to the plotting library.  Spec is a caller that  *)
(* makes free-standing calls of player_data_filtered; SpecScript is the    *)
(* script body, statement by statement.                                    *)
(*                                                                         *)
(* Numbers: an xwOBA cell is an integer number of thousandths, a strike    *)
(* zone bound an integer number of tenths of a foot, a whiff rate an       *)
(* integer number of hundredths of a percent (round(x, 2)).  A missing     *)
(* value (pandas NaN) is the cell [isna |-> TRUE, val |-> 0].              *)
(***************************************************************************)
EXTENDS Integers, Sequences, FiniteSets, TLC

VARIABLES
    provider,           \* date range (1, 2) -> the rows Statcast holds for it; in the
                        \* Rodon script 3 -> the pitching stats, 4 -> the Savant page
    pitch_type_groups,  \* module global dict, lines 19-23
    descriptions,       \* module global dict, lines 25-33
    source,             \* the frame bound to `data` at line 187 by the last call
    ret,                \* the frame the last call of player_data_filtered returned
    args,               \* the date range and the three selectors of the last call
    pc,                 \* next statement of the script body
    globals,            \* module-level names the script body has bound so far
    charts,             \* the data handed to the plotting library, in order
    err                 \* "none", or the exception that ended the run

vars == <<provider, pitch_type_groups, descriptions, source, ret, args,
          pc, globals, charts, err>>

-----------------------------------------------------------------------------
(* Bounds *)

\* longest provider table drawn for a free-standing call of player_data_filtered
MaxRows == 2
\* the script's first date range holds at most this many rows of each kind
MaxPerKind == 2
\* the script's second date range holds this many rows of each kind it has
PerKind2 == 1
\* longest pitching-stats table, and most body rows of the scraped table
MaxStatRows == 2
MaxPageRows == 1

-----------------------------------------------------------------------------
(* Static category tables *)

PitchTypeGroups0 ==
    ("fastball" :> <<"FF", "SI", "FC">>) @@
    ("breaking" :> <<"SL", "CU", "ST", "SV", "KC">>) @@
    ("offspeed" :> <<"FS", "CH">>)

DescriptionsWithoutFoulTipSwing ==
    ("in play" :> <<"hit_into_play">>) @@
    ("swinging strike" :> <<"swinging_strike", "swinging_strike_blocked", "foul_tip">>) @@
    ("called strike" :> <<"called_strike">>) @@
    ("foul" :> <<"foul">>) @@
    ("ball" :> <<"ball", "blocked_ball">>) @@
    ("hit by pitch" :> <<"hit_by_pitch">>) @@
    ("swing" :> <<"hit_into_play", "swinging_strike", "swinging_strike_blocked", "foul">>)

Descriptions0 ==
    ("in play" :> <<"hit_into_play">>) @@
    ("swinging strike" :> <<"swinging_strike", "swinging_strike_blocked", "foul_tip">>) @@
    ("called strike" :> <<"called_strike">>) @@
    ("foul" :> <<"foul">>) @@
    ("ball" :> <<"ball", "blocked_ball">>) @@
    ("hit by pitch" :> <<"hit_by_pitch">>) @@
    ("swing" :> <<"hit_into_play", "swinging_strike", "swinging_strike_blocked", "foul_tip", "foul">>)

\* the handedness literals of line 196
Handedness == <<"L", "R">>

-----------------------------------------------------------------------------
(* Cells and rows *)

NaN == [isna |-> TRUE, val |-> 0]
Num(v) == [isna |-> FALSE, val |-> v]

\* A row as the provider holds it.  Statcast reports an expected wOBA only
\* for a ball put in play; the strike zone bounds are the batter's.
ProviderRow(pt, d, h) ==
    [pitch_type |-> pt, description |-> d, p_throws |-> h,
     estimated_woba_using_speedangle |-> IF d = "hit_into_play" THEN Num(300) ELSE NaN,
     sz_top |-> Num(34), sz_bot |-> Num(16),
     spin_axis |-> 180]

\* pyb.statcast_batter: the provider's rows as a frame with a RangeIndex
statcast_batter(rows) ==
    [i \in 1..Len(rows) |->
        [index |-> i - 1,
         pitch_type |-> rows[i].pitch_type,
         description |-> rows[i].description,
         p_throws |-> rows[i].p_throws,
         estimated_woba_using_speedangle |-> rows[i].estimated_woba_using_speedangle,
         sz_top |-> rows[i].sz_top,
         sz_bot |-> rows[i].sz_bot,
         spin_axis |-> rows[i].spin_axis]]

\* frame[columns]: a new frame with the listed columns only, same index
SelectColumns(frame) ==
    [i \in 1..Len(frame) |->
        [index |-> frame[i].index,
         pitch_type |-> frame[i].pitch_type,
         description |-> frame[i].description,
         p_throws |-> frame[i].p_throws,
         estimated_woba_using_speedangle |-> frame[i].estimated_woba_using_speedangle,
         sz_top |-> frame[i].sz_top,
         sz_bot |-> frame[i].sz_bot]]

\* Series.isin(list)
isin(code, list) == \E i \in DOMAIN list : list[i] = code

\* data[mask], mask a boolean Series over data's rows: the rows whose mask
\* entry is true, in order, index labels kept
BooleanIndex(data, mask) ==
    LET keep[k \in 0..Len(data)] ==
            IF k = 0 THEN <<>>
            ELSE IF mask[k] THEN Append(keep[k - 1], data[k]) ELSE keep[k - 1]
    IN  keep[Len(data)]

RowSet(data) == {data[i] : i \in DOMAIN data}

-----------------------------------------------------------------------------
(* player_data_filtered, lines 187-199 *)

\* Lines 190-191 with the group looked up for every selector but "all".
FilterPitchTypeByLookup(data, pitch_type, groups) ==
    IF pitch_type # "all"
    THEN LET list == IF pitch_type \in DOMAIN groups THEN groups[pitch_type] ELSE <<>>
             mask == [i \in DOMAIN data |-> isin(data[i].pitch_type, list)]
         IN  BooleanIndex(data, mask)
    ELSE data

FilterPitchType(data, pitch_type, groups) ==
    IF pitch_type \in DOMAIN groups
    THEN LET mask == [i \in DOMAIN data |-> isin(data[i].pitch_type, groups[pitch_type])]
         IN  BooleanIndex(data, mask)
    ELSE data

\* Line 194 with the mask taken from the pitch_type column.
FilterDescriptionOnPitchType(data, pitch_description, descs) ==
    IF pitch_description \in DOMAIN descs
    THEN LET mask == [i \in DOMAIN data |-> isin(data[i].pitch_type, descs[pitch_description])]
         IN  BooleanIndex(data, mask)
    ELSE data

FilterDescription(data, pitch_description, descs) ==
    IF pitch_description \in DOMAIN descs
    THEN LET mask == [i \in DOMAIN data |-> isin(data[i].description, descs[pitch_description])]
         IN  BooleanIndex(data, mask)
    ELSE data

\* Line 197 without the guard of line 196.
FilterHandednessAlways(data, pitcher_handedness) ==
    LET mask == [i \in DOMAIN data |-> data[i].p_throws = pitcher_handedness]
    IN  BooleanIndex(data, mask)

FilterHandedness(data, pitcher_handedness) ==
    IF isin(pitcher_handedness, Handedness)
    THEN LET mask == [i \in DOMAIN data |-> data[i].p_throws = pitcher_handedness]
         IN  BooleanIndex(data, mask)
    ELSE data

\* Lines 190-199 with the description mask taken from, and applied to, the
\* unfiltered frame.
FilterEngineFromSource(data, p, d, h, groups, descs) ==
    FilterHandedness(FilterDescription(data, d, descs), h)

\* Lines 190-199: the three restrictions, each applied to the result of the
\* one before.
FilterEngine(data, p, d, h, groups, descs) ==
    FilterHandedness(FilterDescription(FilterPitchType(data, p, groups), d, descs), h)

\* The frames of one call with the rows dropped from the fetched frame itself.
FramesInPlace(rows, p, d, h, groups, descs) ==
    LET data == SelectColumns(statcast_batter(rows))
        out  == FilterEngine(data, p, d, h, groups, descs)
    IN  [source |-> out, ret |-> out]

\* The frames of one call: the frame line 187 binds, which the masks of
\* lines 191-197 read and never write, and the frame line 199 returns.
Frames(rows, p, d, h, groups, descs) ==
    LET data == SelectColumns(statcast_batter(rows))
    IN  [source |-> data, ret |-> FilterEngine(data, p, d, h, groups, descs)]

player_data_filtered(rows, p, d, h, groups, descs) ==
    Frames(rows, p, d, h, groups, descs).ret

-----------------------------------------------------------------------------
(* Inputs of a free-standing call *)

\* pitch-type, outcome and handedness codes Statcast reports; "EP" (eephus)
\* belongs to no pitch-type group
PitchTypeCodes == {"FF", "EP"}
DescriptionCodes == {"swinging_strike", "foul", "ball"}
ThrowsCodes == {"L", "R"}

SampleRows ==
    {ProviderRow(pt, d, h) : pt \in PitchTypeCodes, d \in DescriptionCodes, h \in ThrowsCodes}

Tables(n) == UNION {[1..k -> SampleRows] : k \in 0..n}

\* selector values: the default, group names, and names no table knows
PitchTypeSelectors == {"all", "fastball", "curveball"}
DescriptionSelectors == {"all", "swinging strike", "swing", "whiff"}
HandednessSelectors == {"all", "L", "R", "S"}

\* the arguments of one call; range names the (start_date, end_date) pair
CallOf(range, p, d, h) ==
    [range |-> range, pitch_type |-> p, pitch_description |-> d,
     pitcher_handedness |-> h]

NoCall == CallOf(0, "all", "all", "all")

NoNames == [n \in {} |-> 0]

-----------------------------------------------------------------------------
(* A free-standing call player_data_filtered(start, end, last, first, p, d, h) *)

Init ==
    /\ \E T \in Tables(MaxRows) : provider = (1 :> T) @@ (2 :> <<>>)
    /\ pitch_type_groups = PitchTypeGroups0
    /\ descriptions = Descriptions0
    /\ source = <<>>
    /\ ret = <<>>
    /\ args = NoCall
    /\ pc = 1
    /\ globals = NoNames
    /\ charts = <<>>
    /\ err = "none"

CallFrames(prov, c) ==
    Frames(prov[c.range], c.pitch_type, c.pitch_description, c.pitcher_handedness,
           pitch_type_groups, descriptions)

\* The first k calls of a statement have returned: the frames and the
\* arguments of the last of them.
Ran(prov, calls, k) ==
    IF k = 0
    THEN UNCHANGED <<source, ret, args>>
    ELSE /\ source' = CallFrames(prov, calls[k]).source
         /\ ret' = CallFrames(prov, calls[k]).ret
         /\ args' = calls[k]

Called(range, p, d, h) == Ran(provider, <<CallOf(range, p, d, h)>>, 1)

FilterCall(p, d, h) ==
    /\ Called(1, p, d, h)
    /\ UNCHANGED <<provider, pitch_type_groups, descriptions, pc, globals, charts, err>>

Next ==
    \E p \in PitchTypeSelectors, d \in DescriptionSelectors, h \in HandednessSelectors :
        FilterCall(p, d, h)

Spec == Init /\ [][Next]_vars

-----------------------------------------------------------------------------
(* Properties of a free-standing call *)

CodeSet(list) == {list[i] : i \in DOMAIN list}

KnownPitchType(p) == p \in DOMAIN PitchTypeGroups0
KnownDescription(d) == d \in DOMAIN Descriptions0
KnownHandedness(h) == h \in CodeSet(Handedness)

\* C1: with one selector naming a known group and the other two "all", the
\* returned rows are rows of the source table, and a source row is returned
\* exactly when its code (pitch_type, description or p_throws) is in the
\* selected group's code set.
C1_SingleSelectorMembership ==
    args.range # 0 =>
        /\ (/\ KnownPitchType(args.pitch_type)
            /\ args.pitch_description = "all"
            /\ args.pitcher_handedness = "all")
           => /\ RowSet(ret) \subseteq RowSet(source)
              /\ \A r \in RowSet(source) :
                    r \in RowSet(ret)
                        <=> r.pitch_type \in CodeSet(PitchTypeGroups0[args.pitch_type])
        /\ (/\ args.pitch_type = "all"
            /\ KnownDescription(args.pitch_description)
            /\ args.pitcher_handedness = "all")
           => /\ RowSet(ret) \subseteq RowSet(source)
              /\ \A r \in RowSet(source) :
                    r \in RowSet(ret)
                        <=> r.description \in CodeSet(Descriptions0[args.pitch_description])
        /\ (/\ args.pitch_type = "all"
            /\ args.pitch_description = "all"
            /\ KnownHandedness(args.pitcher_handedness))
           => /\ RowSet(ret) \subseteq RowSet(source)
              /\ \A r \in RowSet(source) :
                    r \in RowSet(ret) <=> r.p_throws = args.pitcher_handedness

\* a call with the single selector "swinging strike" that kept one row and
\* dropped another
C1_Witness ==
    /\ args.range # 0
    /\ args.pitch_type = "all"
    /\ args.pitch_description = "swinging strike"
    /\ args.pitcher_handedness = "all"
    /\ Len(ret) = 1
    /\ Len(source) = 2

\* C2: with all three selectors "all" the call returns the source table
\* unchanged: the rows the provider holds, each once, in order.
C2_AllIsIdentity ==
    (/\ args.range # 0
     /\ args.pitch_type = "all"
     /\ args.pitch_description = "all"
     /\ args.pitcher_handedness = "all")
    => /\ ret = source
       /\ Len(ret) = Len(provider[args.range])
       /\ \A i \in DOMAIN ret :
            /\ ret[i].index = i - 1
            /\ ret[i].pitch_type = provider[args.range][i].pitch_type
            /\ ret[i].description = provider[args.range][i].description
            /\ ret[i].p_throws = provider[args.range][i].p_throws

\* a call with the default selectors on a table of two rows thrown by
\* pitchers of different hands
C2_Witness ==
    /\ args.range # 0
    /\ args.pitch_type = "all"
    /\ args.pitch_description = "all"
    /\ args.pitcher_handedness = "all"
    /\ Len(ret) = 2
    /\ ret[1].p_throws # ret[2].p_throws

\* C3: for every triple of selectors the returned row set is the
\* intersection of the row sets of the three restrictions applied alone to
\* the source table, and applying the three restrictions in any of the six
\* orders gives the returned table.
C3_ConjunctionOfSelectors ==
    args.range # 0 =>
        LET P(t) == FilterPitchType(t, args.pitch_type, PitchTypeGroups0)
            D(t) == FilterDescription(t, args.pitch_description, Descriptions0)
            H(t) == FilterHandedness(t, args.pitcher_handedness)
        IN  /\ RowSet(ret) = RowSet(P(source)) \cap RowSet(D(source)) \cap RowSet(H(source))
            /\ ret = H(D(P(source)))
            /\ ret = D(H(P(source)))
            /\ ret = H(P(D(source)))
            /\ ret = P(H(D(source)))
            /\ ret = D(P(H(source)))
            /\ ret = P(D(H(source)))

\* a call with three known selectors where the pitch-type restriction alone
\* keeps a row that the conjunction drops
C3_Witness ==
    /\ args.range # 0
    /\ KnownPitchType(args.pitch_type)
    /\ KnownDescription(args.pitch_description)
    /\ KnownHandedness(args.pitcher_handedness)
    /\ Len(ret) = 1
    /\ Len(FilterPitchType(source, args.pitch_type, PitchTypeGroups0)) = 2

\* C4: a selector that is no recognized group name (no key of the table,
\* or a handedness other than L and R) leaves its dimension unfiltered: the
\* call ends without an error and returns what the other two selectors
\* alone select.
C4_UnrecognizedSelectorIgnored ==
    args.range # 0 =>
        LET P(t) == FilterPitchType(t, args.pitch_type, PitchTypeGroups0)
            D(t) == FilterDescription(t, args.pitch_description, Descriptions0)
            H(t) == FilterHandedness(t, args.pitcher_handedness)
        IN  /\ err = "none"
            /\ ~KnownPitchType(args.pitch_type) => ret = H(D(source))
            /\ ~KnownDescription(args.pitch_description) => ret = H(P(source))
            /\ ~KnownHandedness(args.pitcher_handedness) => ret = D(P(source))

\* a call with pitch_type "curveball" and handedness "S" that returned both
\* rows of the table, one of them an eephus
C4_Witness ==
    /\ args.range # 0
    /\ args.pitch_type = "curveball"
    /\ args.pitch_description = "all"
    /\ args.pitcher_handedness = "S"
    /\ Len(ret) = 2
    /\ ret[1].pitch_type = "EP"
    /\ ret[2].pitch_type = "FF"

\* C10: after any sequence of calls the category tables are the tables of
\* lines 19-33, the frame fetched by the last call still holds every row
\* of the provider's table, and the frame the last call returned is what
\* its own arguments select from that table.
C10_FilterHasNoSideEffects ==
    /\ pitch_type_groups = PitchTypeGroups0
    /\ descriptions = Descriptions0
    /\ args.range # 0 =>
        /\ source = SelectColumns(statcast_batter(provider[args.range]))
        /\ ret = FilterEngine(SelectColumns(statcast_batter(provider[args.range])),
                              args.pitch_type, args.pitch_description,
                              args.pitcher_handedness, PitchTypeGroups0, Descriptions0)

\* a call that returned no row of a two-row table, whose fetched frame
\* still has both rows
C10_Witness ==
    /\ args.range # 0
    /\ args.pitch_type = "fastball"
    /\ Len(provider[args.range]) = 2
    /\ Len(source) = 2
    /\ Len(ret) = 0

-----------------------------------------------------------------------------
(* Aggregates *)

RECURSIVE Gcd(_, _)
Gcd(a, b) == IF b = 0 THEN a ELSE Gcd(b, a % b)

\* Series.mean(): the mean of the values that are not missing, as a
\* fraction in lowest terms; NaN when there is no such value, which is
\* the case of an empty frame.
Mean(data, column) ==
    LET present == {i \in DOMAIN data : ~data[i][column].isna}
        total[k \in 0..Len(data)] ==
            IF k = 0 THEN 0
            ELSE total[k - 1] + (IF k \in present THEN data[k][column].val ELSE 0)
        n == Cardinality(present)
        g == Gcd(total[Len(data)], n)
    IN  IF n = 0
        THEN [isna |-> TRUE, num |-> 0, den |-> 1]
        ELSE [isna |-> FALSE, num |-> total[Len(data)] \div g, den |-> n \div g]

\* round(n / d): to the nearest integer, a tie to the even one
RoundHalfEven(n, d) ==
    LET q == n \div d
        r == n % d
    IN  IF 2 * r < d THEN q
        ELSE IF 2 * r > d THEN q + 1
        ELSE IF q % 2 = 0 THEN q ELSE q + 1

\* round((n / d) * 100, 2) without the scaling by 100
RatioUnscaled(n, d) ==
    IF d = 0
    THEN [raised |-> TRUE, val |-> 0]
    ELSE [raised |-> FALSE, val |-> RoundHalfEven(100 * n, d)]

\* round((n / d) * 100, 2) with a zero denominator answered by 0
RatioOrZero(n, d) ==
    IF d = 0
    THEN [raised |-> FALSE, val |-> 0]
    ELSE [raised |-> FALSE, val |-> RoundHalfEven(10000 * n, d)]

\* round((len(a) / len(b)) * 100, 2), in hundredths of a percent: the int
\* division raises ZeroDivisionError when len(b) is 0.  (The float product
\* is rounded where the exact one is unless 10000 * n / d ends in .5, which
\* needs a denominator that is a multiple of 32.)
RatioPercentage(n, d) ==
    IF d = 0
    THEN [raised |-> TRUE, val |-> 0]
    ELSE [raised |-> FALSE, val |-> RoundHalfEven(10000 * n, d)]

-----------------------------------------------------------------------------
(* The script body, lines 243-415 *)

\* the kinds of row a date range of the script holds
Kinds ==
    << ProviderRow("FF", "swinging_strike", "R"),
       ProviderRow("FF", "hit_into_play", "L"),
       ProviderRow("CU", "foul", "R"),
       ProviderRow("CH", "foul_tip", "L"),
       ProviderRow("EP", "ball", "R") >>

RECURSIVE Repeat(_, _)
Repeat(row, n) == IF n = 0 THEN <<>> ELSE <<row>> \o Repeat(row, n - 1)

\* counts[i] rows of kind i, kind by kind
KindTable(counts) ==
    LET upto[k \in 0..Len(Kinds)] ==
            IF k = 0 THEN <<>> ELSE upto[k - 1] \o Repeat(Kinds[k], counts[k])
    IN  upto[Len(Kinds)]

ScriptTables(n) == {KindTable(c) : c \in [DOMAIN Kinds -> 0..n]}

\* the second range: n rows of each of the first m kinds, m = 0 (no row at
\* all) to all the kinds
SecondRangeTables(n) ==
    {KindTable([k \in DOMAIN Kinds |-> IF k <= m THEN n ELSE 0]) : m \in 0..Len(Kinds)}

\* what a stint's statements select by, in the order of the statements
ByPitchType == <<"all", "fastball", "breaking", "offspeed">>

DataName(s) == <<"first_stint_data", "second_stint_data">>[s]

XwobaNames(s) ==
    IF s = 1
    THEN <<"first_stint_xwoba", "first_stint_xwoba_fastball",
           "first_stint_xwoba_breaking", "first_stint_xwoba_offspeed">>
    ELSE <<"second_stint_xwoba", "second_stint_xwoba_fastball",
           "second_stint_xwoba_breaking", "second_stint_xwoba_offspeed">>

WhiffNames(s) ==
    IF s = 1
    THEN <<"overall_whiff_rate", "fastball_whiff_rate",
           "breaking_whiff_rate", "offspeed_whiff_rate">>
    ELSE <<"second_stint_overall_whiff_rate", "second_fastball_whiff_rate",
           "second_breaking_whiff_rate", "second_offspeed_whiff_rate">>

PlotNames(s) ==
    IF s = 1
    THEN <<"fastball_first_stint_swings_plot", "fastball_first_stint_whiffs_plot">>
    ELSE <<"fastball_second_stint_swings_plot", "fastball_second_stint_whiffs_plot">>

PlotDescriptions == <<"swing", "swinging strike">>

\* statements per stint, and the position of stint s's k-th statement
StintLength == 13
At(s, k) == (s - 1) * StintLength + k
Done == 2 * StintLength + 1

\* player_id (the directory lookup) and statcast_batter (the query) can fail
EnvFailures == {"PlayerNotFound", "NetworkFailure"}

\* the league averages of lines 257 and 297
MlbAvgXwoba == [isna |-> FALSE, num |-> 315, den |-> 1]
MlbAvgWhiffRate == 2490

Bind(name, value) == (name :> value) @@ globals

InitScript ==
    /\ \E T \in ScriptTables(MaxPerKind) : provider = (1 :> T) @@ (2 :> <<>>)
    /\ pitch_type_groups = PitchTypeGroups0
    /\ descriptions = Descriptions0
    /\ source = <<>>
    /\ ret = <<>>
    /\ args = NoCall
    /\ pc = 1
    /\ globals = NoNames
    /\ charts = <<>>
    /\ err = "none"

\* A call wrapped in "try: ... except: pass": the calls before the failing
\* one have returned, nothing is raised and the script goes on.
CallFailsSwallowed(prov, calls) ==
    \E k \in 0..(Len(calls) - 1) :
        /\ Ran(prov, calls, k)
        /\ pc' = pc + 1
        /\ UNCHANGED <<err, globals, charts>>

\* One of the statement's calls fails: the calls before it have returned,
\* the exception ends the run.
CallFails(prov, calls) ==
    \E k \in 0..(Len(calls) - 1), e \in EnvFailures :
        /\ Ran(prov, calls, k)
        /\ err' = e
        /\ UNCHANGED <<pc, globals, charts>>

\* Lines 244 and 325.  The rows of the second range are whatever the
\* provider holds when the range is first asked for.
StintData(s) ==
    /\ err = "none"
    /\ pc = At(s, 1)
    /\ \E T \in (IF s = 1 THEN {provider[1]} ELSE SecondRangeTables(PerKind2)) :
        LET prov == [provider EXCEPT ![s] = T]
            calls == <<CallOf(s, "all", "all", "all")>>
        IN  /\ provider' = prov
            /\ \/ CallFails(prov, calls)
               \/ /\ Ran(prov, calls, 1)
                  /\ globals' = Bind(DataName(s), CallFrames(prov, calls[1]).ret)
                  /\ pc' = pc + 1
                  /\ UNCHANGED <<charts, err>>
    /\ UNCHANGED <<pitch_type_groups, descriptions>>

\* Lines 245 and 326: no call, the mean of the frame already bound.
XwobaOverall(s) ==
    /\ err = "none"
    /\ pc = At(s, 2)
    /\ globals' = Bind(XwobaNames(s)[1],
                       Mean(globals[DataName(s)], "estimated_woba_using_speedangle"))
    /\ pc' = pc + 1
    /\ UNCHANGED <<provider, pitch_type_groups, descriptions, source, ret, args,
                   charts, err>>

\* Lines 246-253 and 327-334, j = 2, 3, 4 for fastball, breaking, offspeed.
XwobaByPitchType(s, j) ==
    /\ err = "none"
    /\ pc = At(s, 1 + j)
    /\ LET calls == <<CallOf(s, ByPitchType[j], "all", "all")>>
       IN  \/ CallFails(provider, calls)
           \/ /\ Ran(provider, calls, 1)
              /\ globals' = Bind(XwobaNames(s)[j],
                                 Mean(CallFrames(provider, calls[1]).ret,
                                      "estimated_woba_using_speedangle"))
              /\ pc' = pc + 1
              /\ UNCHANGED <<charts, err>>
    /\ UNCHANGED <<provider, pitch_type_groups, descriptions>>

\* Lines 256-272 (one bar per value) and 337-360 (both stints side by side).
XwobaChart(s) ==
    /\ err = "none"
    /\ pc = At(s, 6)
    /\ LET column(t) == <<MlbAvgXwoba>> \o [j \in 1..4 |-> globals[XwobaNames(t)[j]]]
       IN  charts' = Append(charts,
                [kind |-> "xwoba", stints |-> s,
                 values |-> IF s = 1 THEN column(1) ELSE column(1) \o column(2)])
    /\ pc' = pc + 1
    /\ UNCHANGED <<provider, pitch_type_groups, descriptions, source, ret, args,
                   globals, err>>

\* Lines 276-294 and 364-378, j = 1..4 for overall, fastball, breaking,
\* offspeed: the numerator's call, the denominator's call, the division.
WhiffRate(s, j) ==
    /\ err = "none"
    /\ pc = At(s, 6 + j)
    /\ LET calls == <<CallOf(s, ByPitchType[j], "swinging strike", "all"),
                      CallOf(s, ByPitchType[j], "swing", "all")>>
           rate == RatioPercentage(Len(CallFrames(provider, calls[1]).ret),
                                   Len(CallFrames(provider, calls[2]).ret))
       IN  \/ CallFails(provider, calls)
           \/ /\ Ran(provider, calls, 2)
              /\ IF rate.raised
                 THEN /\ err' = "ZeroDivisionError"
                      /\ UNCHANGED <<pc, globals>>
                 ELSE /\ globals' = Bind(WhiffNames(s)[j], rate.val)
                      /\ pc' = pc + 1
                      /\ err' = err
              /\ UNCHANGED charts
    /\ UNCHANGED <<provider, pitch_type_groups, descriptions>>

\* Lines 296-311 and 380-404.
WhiffChart(s) ==
    /\ err = "none"
    /\ pc = At(s, 11)
    /\ LET column(t) == <<MlbAvgWhiffRate>> \o [j \in 1..4 |-> globals[WhiffNames(t)[j]]]
       IN  charts' = Append(charts,
                [kind |-> "whiff_rate", stints |-> s,
                 values |-> IF s = 1 THEN column(1) ELSE column(1) \o column(2)])
    /\ pc' = pc + 1
    /\ UNCHANGED <<provider, pitch_type_groups, descriptions, source, ret, args,
                   globals, err>>

\* Lines 314-320 and 408-414, j = 1, 2 for swings and whiffs on fastballs:
\* player_data_strike_zone (lines 231-240) calls the filter, scatters the
\* frame (line 236), then create_strike_zone (lines 82-87) calls the filter
\* twice more for the means of sz_top and sz_bot and draws the rectangle.
StrikeZonePlot(s, j) ==
    /\ err = "none"
    /\ pc = At(s, 11 + j)
    /\ LET all == CallOf(s, "all", "all", "all")
           calls == <<CallOf(s, "fastball", PlotDescriptions[j], "all"), all, all>>
           scatter == [kind |-> "scatter", stints |-> s,
                       values |-> CallFrames(provider, calls[1]).ret]
           zone == [kind |-> "strike_zone", stints |-> s,
                    values |-> <<Mean(CallFrames(provider, all).ret, "sz_top"),
                                 Mean(CallFrames(provider, all).ret, "sz_bot")>>]
       IN  \/ \E k \in 0..2, e \in EnvFailures :
                /\ Ran(provider, calls, k)
                /\ err' = e
                /\ charts' = IF k = 0 THEN charts ELSE Append(charts, scatter)
                /\ UNCHANGED <<pc, globals>>
           \/ /\ Ran(provider, calls, 3)
              /\ charts' = Append(Append(charts, scatter), zone)
              /\ globals' = Bind(PlotNames(s)[j], "Axes.set")
              /\ pc' = pc + 1
              /\ err' = err
    /\ UNCHANGED <<provider, pitch_type_groups, descriptions>>

NextScript ==
    \E s \in 1..2 :
        \/ StintData(s)
        \/ XwobaOverall(s)
        \/ \E j \in 2..4 : XwobaByPitchType(s, j)
        \/ XwobaChart(s)
        \/ \E j \in 1..4 : WhiffRate(s, j)
        \/ WhiffChart(s)
        \/ \E j \in 1..2 : StrikeZonePlot(s, j)

SpecScript == InitScript /\ [][NextScript]_vars

-----------------------------------------------------------------------------
(* Properties of the script body *)

\* the frame a call on range s with pitch-type selector p and description
\* selector d returns
Selected(s, p, d) ==
    player_data_filtered(provider[s], p, d, "all", PitchTypeGroups0, Descriptions0)

\* the rows of range s that selector p keeps and whose outcome code is in group d
CountOf(s, p, d) ==
    Cardinality({i \in DOMAIN provider[s] :
        /\ p \in DOMAIN PitchTypeGroups0
            => provider[s][i].pitch_type \in CodeSet(PitchTypeGroups0[p])
        /\ provider[s][i].description \in CodeSet(Descriptions0[d])})

\* C5: the mean of a column of an empty filtered table is never a NaN that
\* reaches the chart data: no bar of an xwOBA chart that stands for an empty
\* filtered table is NaN.
C5_MeanOfEmptyTableNeverNaN ==
    \A i \in DOMAIN charts :
        charts[i].kind = "xwoba" =>
            \A s \in 1..charts[i].stints, j \in 1..4 :
                Len(Selected(s, ByPitchType[j], "all")) = 0
                    => ~charts[i].values[5 * (s - 1) + 1 + j].isna

\* C6: a whiff rate is bound, and its statement passed, only when the
\* "swing" table of its pitch-type selector has a row; with no such row the
\* statement ends the run with ZeroDivisionError, the rate stays unbound and
\* no whiff-rate chart of that stint is drawn.
C6_ZeroDenominatorRaises ==
    /\ \A s \in 1..2, j \in 1..4 :
        (WhiffNames(s)[j] \in DOMAIN globals \/ pc > At(s, 6 + j))
            => Len(Selected(s, ByPitchType[j], "swing")) > 0
    /\ err = "ZeroDivisionError" =>
        \E s \in 1..2, j \in 1..4 :
            /\ pc = At(s, 6 + j)
            /\ Len(Selected(s, ByPitchType[j], "swing")) = 0
            /\ WhiffNames(s)[j] \notin DOMAIN globals
            /\ \A i \in DOMAIN charts :
                charts[i].kind = "whiff_rate" => charts[i].stints < s

\* the breaking-ball whiff rate of a first range that has rows, none of
\* them a swing at a breaking ball: ZeroDivisionError after the overall and
\* fastball rates were bound
C6_Witness ==
    /\ err = "ZeroDivisionError"
    /\ pc = At(1, 9)
    /\ Len(provider[1]) > 0
    /\ "fastball_whiff_rate" \in DOMAIN globals
    /\ "breaking_whiff_rate" \notin DOMAIN globals

\* C7: a range for which the provider returns zero rows ends the run with
\* NoDataForRange at the first fetch of the range; no statement after it
\* runs on the zero-row frame.
C7_EmptyFetchYieldsNoDataForRange ==
    (args.range # 0 /\ Len(source) = 0)
        => /\ err = "NoDataForRange"
           /\ pc = At(args.range, 1)

\* C8: every whiff rate the script binds is between 0 and 100 percent and is
\* 0 when no row is a swinging strike, its numerator's rows being rows of
\* its denominator because the "swinging strike" codes are "swing" codes.
C8_WhiffRateInRange ==
    /\ CodeSet(descriptions["swinging strike"]) \subseteq CodeSet(descriptions["swing"])
    /\ \A s \in 1..2, j \in 1..4 :
        WhiffNames(s)[j] \in DOMAIN globals =>
            /\ globals[WhiffNames(s)[j]] \in 0..10000
            /\ RowSet(Selected(s, ByPitchType[j], "swinging strike"))
                    \subseteq RowSet(Selected(s, ByPitchType[j], "swing"))
            /\ CountOf(s, ByPitchType[j], "swinging strike") = 0
                    => globals[WhiffNames(s)[j]] = 0

\* all four rates of the first stint bound: 0 percent on fastballs (every
\* swing at one put in play), 100 percent on offspeed, in between overall
C8_Witness ==
    /\ "offspeed_whiff_rate" \in DOMAIN globals
    /\ globals["fastball_whiff_rate"] = 0
    /\ globals["offspeed_whiff_rate"] = 10000
    /\ globals["overall_whiff_rate"] > 0
    /\ globals["overall_whiff_rate"] < 10000

\* C9: a bound whiff rate is 100 * swinging strikes / swings to the nearest
\* hundredth of a percent, so it is 50.00 whenever 3 of the selected rows
\* have a "swinging strike" code and 6 have a "swing" code.
C9_ThreeOfSixIsFifty ==
    \A s \in 1..2, j \in 1..4 :
        WhiffNames(s)[j] \in DOMAIN globals =>
            LET n == CountOf(s, ByPitchType[j], "swinging strike")
                d == CountOf(s, ByPitchType[j], "swing")
                v == globals[WhiffNames(s)[j]]
            IN  /\ 2 * (v * d - 10000 * n) <= d
                /\ 2 * (10000 * n - v * d) <= d
                /\ (n = 3 /\ d = 6) => v = 5000

\* the overall rate of a first range of 8 rows, 3 of them swinging strikes
\* or foul tips, 3 more of them put in play or fouled off, 2 of them balls
C9_Witness ==
    /\ "overall_whiff_rate" \in DOMAIN globals
    /\ Len(provider[1]) = 8
    /\ CountOf(1, "all", "swinging strike") = 3
    /\ CountOf(1, "all", "swing") = 6
    /\ globals["overall_whiff_rate"] = 5000

-----------------------------------------------------------------------------
(* The Rodon script body, src/Rodon_project_code.py lines 20-84 *)

\* positions of the Rodon script's statements, after those of the other script
RodonAt(k) == Done + k
RodonDone == RodonAt(17)

\* a row of pyb.pitching_stats: usage in percent
StatsRow(name, season) ==
    ("Name" :> name) @@ ("Season" :> season) @@ ("Team" :> "NYY") @@
    ("FA% (sc)" :> season - 1962) @@ ("SL% (sc)" :> 2050 - season) @@
    ("CH% (sc)" :> 12)

StatsSample ==
    {StatsRow(name, season) : name \in {"Carlos Rodon", "Gerrit Cole"},
                              season \in {2021, 2022}}

StatsTables(n) == UNION {[1..k -> StatsSample] : k \in 0..n}

\* The page as find_all sees it: how many tables it has and, when it has
\* the one indexed at line 59, that table's th texts and the td texts of
\* its body rows.
GoodHeaders == <<"Year", "Pitch Type", "xwOBA">>
RenamedHeaders == <<"Season", "Pitch Type", "xwOBA">>

BodyRows ==
    {<<y, t, x>> : y \in {"2020", "2021"}, t \in {"Slider", "Sinker"}, x \in {".300", "--"}}

\* the index of line 59
ScrapeTableIndex == 45

Pages(n) ==
    {[ntables |-> 12, headers |-> <<>>, rows |-> <<>>]} \cup
    {[ntables |-> 46, headers |-> h, rows |-> r] :
        h \in {GoodHeaders, RenamedHeaders},
        r \in UNION {[1..k -> BodyRows] : k \in 0..n}}

\* DataFrame.query on one column and data[[columns]]: the rows kept, and
\* the columns kept, of a frame whose rows are functions of column names
Columns(frame, cols) ==
    [i \in DOMAIN frame |-> [c \in cols |-> frame[i][c]]]

\* sort_values('Season'): ascending, rows of equal Season in their order
InsertBySeason(sorted, r) ==
    LET k == Cardinality({i \in DOMAIN sorted : sorted[i]["Season"] <= r["Season"]})
    IN  SubSeq(sorted, 1, k) \o <<r>> \o SubSeq(sorted, k + 1, Len(sorted))

sort_values(frame) ==
    LET upto[k \in 0..Len(frame)] ==
            IF k = 0 THEN <<>> ELSE InsertBySeason(upto[k - 1], frame[k])
    IN  upto[Len(frame)]

\* pd.DataFrame(data, columns=headers): short rows are padded with None;
\* the widest row must be as wide as the headers
Width(data) ==
    IF \E i \in DOMAIN data : Len(data[i]) > 0
    THEN CHOOSE w \in {Len(data[i]) : i \in DOMAIN data} :
            \A i \in DOMAIN data : Len(data[i]) <= w
    ELSE 0

DataFrame(data, headers) ==
    [i \in DOMAIN data |->
        [c \in CodeSet(headers) |->
            LET k == CHOOSE j \in DOMAIN headers : headers[j] = c
            IN  IF k <= Len(data[i]) THEN data[i][k] ELSE "None"]]

\* pd.to_numeric(text, errors='coerce'), a year as it is, an xwOBA in
\* thousandths; what is no numeral becomes NaN
Numerals == ("2020" :> 2020) @@ ("2021" :> 2021) @@ (".300" :> 300)

to_numeric(text) ==
    IF text \in DOMAIN Numerals THEN Num(Numerals[text]) ELSE NaN

\* the names the annotation loops of lines 36-43 and 83-84 leave bound
LoopNames(frame, x, y) ==
    IF Len(frame) = 0 THEN NoNames
    ELSE ("i" :> frame[Len(frame)][x]) @@ ("j" :> frame[Len(frame)][y])

RodonFrame == UNCHANGED <<pitch_type_groups, descriptions, source, ret, args>>

InitRodon ==
    /\ \E T \in StatsTables(MaxStatRows) : provider = (3 :> T) @@ (4 :> <<>>)
    /\ pitch_type_groups = PitchTypeGroups0
    /\ descriptions = Descriptions0
    /\ source = <<>>
    /\ ret = <<>>
    /\ args = NoCall
    /\ pc = RodonAt(1)
    /\ globals = NoNames
    /\ charts = <<>>
    /\ err = "none"

\* The statement at pc is one of the Rodon script's and the run is alive.
RodonStatement(k) == err = "none" /\ pc = RodonAt(k)

\* The statement binds names and goes on to the next one.
Binds(names) ==
    /\ globals' = names @@ globals
    /\ pc' = pc + 1
    /\ UNCHANGED <<provider, charts, err>>
    /\ RodonFrame

\* The statement raises: the exception ends the run.
Raises(e) ==
    /\ err' = e
    /\ UNCHANGED <<provider, pc, globals, charts>>
    /\ RodonFrame

\* Line 20: the FanGraphs query returns, or fails.
PitchingStats ==
    /\ RodonStatement(1)
    /\ \/ Binds("all_data" :> provider[3])
       \/ Raises("NetworkFailure")

\* Line 22.
RodonQuery ==
    /\ RodonStatement(2)
    /\ LET all_data == globals["all_data"]
           mask == [i \in DOMAIN all_data |-> all_data[i]["Name"] = "Carlos Rodon"]
       IN  Binds("rodon_data_pybaseball" :> BooleanIndex(all_data, mask))

\* Lines 24-25: the loop variable keeps the last column's name.
PrintColumns ==
    /\ RodonStatement(3)
    /\ Binds("column" :> "CH% (sc)")

\* Line 27.
PitchUsage ==
    /\ RodonStatement(4)
    /\ Binds("rodon_pitch_usage" :>
            sort_values(Columns(globals["rodon_data_pybaseball"],
                                {"Season", "FA% (sc)", "SL% (sc)", "CH% (sc)"})))

\* Lines 31-49: three lines and their annotations on one figure.
PitchUsageChart ==
    /\ RodonStatement(5)
    /\ charts' = Append(charts, [kind |-> "pitch_usage", stints |-> 0,
                                 values |-> globals["rodon_pitch_usage"]])
    /\ globals' = LoopNames(globals["rodon_pitch_usage"], "Season", "CH% (sc)") @@
                  ("fastball_plot" :> "Axes") @@ ("slider_plot" :> "Axes") @@
                  ("changeup_plot" :> "Axes") @@ globals
    /\ pc' = pc + 1
    /\ UNCHANGED <<provider, err>>
    /\ RodonFrame

\* Lines 53-55: the page is whatever Baseball Savant serves when asked.
GetPage ==
    /\ RodonStatement(6)
    /\ \/ \E page \in Pages(MaxPageRows) :
            /\ provider' = [provider EXCEPT ![4] = page]
            /\ globals' = ("url" :> "baseballsavant") @@ ("html" :> page) @@ globals
            /\ pc' = pc + 1
            /\ UNCHANGED <<charts, err>>
       \/ /\ err' = "NetworkFailure"
          /\ UNCHANGED <<provider, pc, globals, charts>>
    /\ RodonFrame

\* Line 57.
ParsePage ==
    /\ RodonStatement(7)
    /\ Binds("soup_version" :> globals["html"])

\* Line 59: IndexError when the page has no table at index 45.
FindTable ==
    /\ RodonStatement(8)
    /\ LET soup == globals["soup_version"]
       IN  IF soup.ntables > ScrapeTableIndex
           THEN Binds("table" :> [headers |-> soup.headers, rows |-> soup.rows])
           ELSE Raises("IndexError")

\* Line 61.
ReadHeaders ==
    /\ RodonStatement(9)
    /\ Binds("headers" :> globals["table"].headers)

\* Lines 63-66: one list per tr; the header's tr has no td.
ReadRows ==
    /\ RodonStatement(10)
    /\ LET data == <<<<>>>> \o globals["table"].rows
       IN  Binds(("data" :> data) @@ ("row_data" :> data[Len(data)]))

\* Line 68.
MakeFrame ==
    /\ RodonStatement(11)
    /\ IF Width(globals["data"]) = Len(globals["headers"])
       THEN Binds("df" :> DataFrame(globals["data"], globals["headers"]))
       ELSE Raises("ValueError")

\* Lines 69 (k = 12, Year) and 70 (k = 13, xwOBA): KeyError when the frame
\* has no such column.
ToNumericColumn(k, c) ==
    /\ RodonStatement(k)
    /\ LET df == globals["df"]
       IN  IF c \in CodeSet(globals["headers"])
           THEN Binds("df" :> [i \in DOMAIN df |->
                                  [df[i] EXCEPT ![c] = to_numeric(df[i][c])]])
           ELSE Raises("KeyError")

\* Line 71.
QueryYear ==
    /\ RodonStatement(14)
    /\ LET df == globals["df"]
           mask == [i \in DOMAIN df |-> ~df[i]["Year"].isna /\ df[i]["Year"].val > 2020]
       IN  Binds("df" :> Columns(BooleanIndex(df, mask), {"Year", "Pitch Type", "xwOBA"}))

\* Line 72.
QueryPitchType ==
    /\ RodonStatement(15)
    /\ LET df == globals["df"]
           mask == [i \in DOMAIN df |->
                       df[i]["Pitch Type"] \in {"4-Seam Fastball", "Slider", "Changeup"}]
       IN  Binds("df" :> BooleanIndex(df, mask))

\* Lines 76-84.
XwobaByYearChart ==
    /\ RodonStatement(16)
    /\ charts' = Append(charts, [kind |-> "xwoba_by_year", stints |-> 0,
                                 values |-> globals["df"]])
    /\ globals' = LoopNames(globals["df"], "Year", "xwOBA") @@
                  ("xwOBA_graph" :> "Axes") @@ globals
    /\ pc' = pc + 1
    /\ UNCHANGED <<provider, err>>
    /\ RodonFrame

NextRodon ==
    \/ PitchingStats
    \/ RodonQuery
    \/ PrintColumns
    \/ PitchUsage
    \/ PitchUsageChart
    \/ GetPage
    \/ ParsePage
    \/ FindTable
    \/ ReadHeaders
    \/ ReadRows
    \/ MakeFrame
    \/ ToNumericColumn(12, "Year")
    \/ ToNumericColumn(13, "xwOBA")
    \/ QueryYear
    \/ QueryPitchType
    \/ XwobaByYearChart

SpecRodon == InitRodon /\ [][NextRodon]_vars

\* a run of either script
InitRuns == InitScript \/ InitRodon
NextRuns == NextScript \/ NextRodon
SpecRuns == InitRuns /\ [][NextRuns]_vars


-----------------------------------------------------------------------------
(* Properties of a run of either script *)

\* the names the statement at position k binds when it completes
StatementNames(k) ==
    IF k < Done
    THEN LET s == ((k - 1) \div StintLength) + 1
             j == k - (s - 1) * StintLength
         IN  IF j = 1 THEN {DataName(s)}
             ELSE IF j \in 2..5 THEN {XwobaNames(s)[j - 1]}
             ELSE IF j \in 7..10 THEN {WhiffNames(s)[j - 6]}
             ELSE IF j \in 12..13 THEN {PlotNames(s)[j - 11]}
             ELSE {}
    ELSE LET j == k - Done
         IN  IF j = 1 THEN {"all_data"}
             ELSE IF j = 2 THEN {"rodon_data_pybaseball"}
             ELSE IF j = 3 THEN {"column"}
             ELSE IF j = 4 THEN {"rodon_pitch_usage"}
             ELSE IF j = 5 THEN {"fastball_plot", "slider_plot", "changeup_plot"}
             ELSE IF j = 6 THEN {"url", "html"}
             ELSE IF j = 7 THEN {"soup_version"}
             ELSE IF j = 8 THEN {"table"}
             ELSE IF j = 9 THEN {"headers"}
             ELSE IF j = 10 THEN {"data", "row_data"}
             ELSE IF j \in 11..15 THEN {"df"}
             ELSE {"xwOBA_graph"}

\* the charts the statement at position k draws when it completes
StatementCharts(k) ==
    IF k < Done
    THEN LET j == ((k - 1) % StintLength) + 1
         IN  IF j \in {6, 11} THEN 1 ELSE IF j \in 12..13 THEN 2 ELSE 0
    ELSE IF k - Done \in {5, 16} THEN 1 ELSE 0

\* C11: no failure is caught or recovered.  Once a statement has failed
\* nothing of the run is executed any more: no fetch, no binding, no chart,
\* no step to another statement.  The failing statement itself binds no
\* name and is not left.  A run goes from a statement only to the next one,
\* only while nothing has failed, and only when the statement has done
\* all of its work: its names are bound and its charts are drawn.
C11_FailurePropagates ==
    [][ /\ err # "none" => UNCHANGED vars
        /\ err' # "none" => pc' = pc /\ globals' = globals
        /\ pc' # pc =>
            /\ pc' = pc + 1
            /\ err = "none" /\ err' = "none"
            /\ StatementNames(pc) \subseteq DOMAIN globals'
            /\ Len(charts') = Len(charts) + StatementCharts(pc) ]_vars

\* the fetch of the second range has failed after the six charts of the
\* first stint were drawn: the run stands at that statement, the second
\* stint's table is not bound
C11_Witness ==
    /\ err \in EnvFailures
    /\ pc = At(2, 1)
    /\ Len(charts) = 6
    /\ DataName(2) \notin DOMAIN globals

=============================================================================
